---- MODULE Spec2Model ----
(***************************************************************************)
(* Eveflow backend (Backend/admin_routes.py, Backend/models.py): the event *)
(* registry, the application review state machine and the payment ledger,  *)
(* with the ownership chain Payment -> Application -> Event -> admin.      *)
(*                                                                         *)
(* Python strings that the code splits, trims and upper-cases are modelled *)
(* as sequences of one-character strings, so that normalisation is         *)
(* computed and not assumed.  A JSON request body is a function whose      *)
(* DOMAIN is the set of keys present in the request.                       *)
(***************************************************************************)
EXTENDS Integers, Sequences, FiniteSets, TLC

VARIABLES users, events, applications, payments,
          nextEventId, nextApplicationId, nextPaymentId,
          now, resp, handlers, isolation

db == <<users, events, applications, payments,
        nextEventId, nextApplicationId, nextPaymentId>>
vars == <<users, events, applications, payments,
          nextEventId, nextApplicationId, nextPaymentId, now, resp, handlers,
          isolation>>

---------------------------------------------------------------------------
(* Bounds of the model *)
MaxEvents == 2
MaxApplications == 1
MaxPayments == 2
MaxTime == 2
MaxHandlers == 2
MaxListed == 2
MaxUsers == 4

(* NULL in an integer or timestamp column; NULL in a text column *)
Null == 0
NoText == "<null>"

---------------------------------------------------------------------------
(* Python str primitives over sequences of characters *)

UpperChar(c) ==
  CASE c = "u" -> "U"
    [] c = "s" -> "S"
    [] c = "d" -> "D"
    [] c = "e" -> "E"
    [] c = "r" -> "R"
    [] c = "o" -> "O"
    [] c = "k" -> "K"
    [] OTHER -> c

Upper(s) == [i \in 1..Len(s) |-> UpperChar(s[i])]

IsSpace(c) == c = " "

RECURSIVE LStrip(_)
LStrip(s) == IF s # <<>> /\ IsSpace(Head(s)) THEN LStrip(Tail(s)) ELSE s

RECURSIVE RStrip(_)
RStrip(s) ==
  IF s # <<>> /\ IsSpace(s[Len(s)]) THEN RStrip(SubSeq(s, 1, Len(s) - 1)) ELSE s

Strip(s) == RStrip(LStrip(s))

(* str.split(','): always at least one piece, empty pieces are kept *)
RECURSIVE SplitFrom(_, _, _)
SplitFrom(s, i, cur) ==
  IF i > Len(s) THEN <<cur>>
  ELSE IF s[i] = "," THEN <<cur>> \o SplitFrom(s, i + 1, <<>>)
  ELSE SplitFrom(s, i + 1, Append(cur, s[i]))

Split(s) == SplitFrom(s, 1, <<>>)

(* ','.join(parts) *)
RECURSIVE Join(_)
Join(parts) ==
  IF parts = <<>> THEN <<>>
  ELSE IF Len(parts) = 1 THEN parts[1]
  ELSE parts[1] \o <<",">> \o Join(Tail(parts))

InSeq(x, seq) == \E i \in 1..Len(seq) : seq[i] = x

(* String literals that occur in the code or in requests *)
USD == <<"U", "S", "D">>
EUR == <<"E", "U", "R">>
KES == <<"K", "E", "S">>
EURO == <<"E", "U", "R", "O">>
EUROS == <<"E", "U", "R", "O", "S">>

---------------------------------------------------------------------------
(* Request bodies: dict access *)
Has(data, k) == k \in DOMAIN data
Get(data, k, d) == IF k \in DOMAIN data THEN data[k] ELSE d

(* A currency_options value in a request: JSON null, a string or a list *)
RawNull == [kind |-> "null", v |-> <<>>]
RawStr(s) == [kind |-> "str", v |-> s]
RawList(l) == [kind |-> "list", v |-> l]

(* Python truthiness of such a value: None, '' and [] are falsy *)
Falsy(raw) == raw.kind = "null" \/ raw.v = <<>>

RECURSIVE CleanTokensNoAlias(_, _)
CleanTokensNoAlias(values, cleaned) ==
  IF values = <<>> THEN cleaned
  ELSE LET code == Upper(Strip(Head(values)))
       IN IF code # <<>> /\ ~InSeq(code, cleaned)
          THEN CleanTokensNoAlias(Tail(values), Append(cleaned, code))
          ELSE CleanTokensNoAlias(Tail(values), cleaned)

(* lines 44-49 *)
RECURSIVE CleanTokens(_, _)
CleanTokens(values, cleaned) ==
  IF values = <<>> THEN cleaned
  ELSE LET up == Upper(Strip(Head(values)))
           code == IF up = EURO \/ up = EUROS THEN EUR ELSE up
       IN IF code # <<>> /\ ~InSeq(code, cleaned)
          THEN CleanTokens(Tail(values), Append(cleaned, code))
          ELSE CleanTokens(Tail(values), cleaned)

normalize_currency_options(raw_options, default_currency) ==
  IF Falsy(raw_options) THEN Upper(default_currency)
  ELSE LET values == IF raw_options.kind = "list" THEN raw_options.v
                     ELSE Split(raw_options.v)
           cleaned == CleanTokens(values, <<>>)
       IN Join(IF cleaned # <<>> THEN cleaned ELSE <<Upper(default_currency)>>)

RECURSIVE StripNonEmpty(_)
StripNonEmpty(parts) ==
  IF parts = <<>> THEN <<>>
  ELSE IF Strip(Head(parts)) # <<>>
       THEN <<Strip(Head(parts))>> \o StripNonEmpty(Tail(parts))
       ELSE StripNonEmpty(Tail(parts))

(* [c.strip() for c in options.split(',') if c.strip()] *)
allowed_currencies(currency_options) == StripNonEmpty(Split(currency_options))

---------------------------------------------------------------------------
(* Identity: the bearer token carries the principal's id *)

check_admin_exists(current_user_id) == current_user_id \in DOMAIN users

(* lines 17-23 *)
check_admin(current_user_id) ==
  /\ current_user_id \in DOMAIN users
  /\ users[current_user_id].role = "admin"

(* The HTTP response of the last request, with the request's target and  *)
(* body; token is the identity of the access token the response carries  *)
Resp(op, actor, id, code) ==
  [op |-> op, actor |-> actor, id |-> id, code |-> code,
   evts |-> {}, apps |-> {}, pays |-> {}, vnds |-> {}, body |-> <<>>,
   stats |-> <<>>, token |-> Null]

(* The response to a request whose JSON body the handler has read *)
RespTo(op, actor, id, code, data) ==
  [Resp(op, actor, id, code) EXCEPT !.body = data]

(* A commit of the request's transaction: every table and sequence at once *)
Commit(us, ev, ap, pa, ne, na, np) ==
  /\ users' = us
  /\ events' = ev
  /\ applications' = ap
  /\ payments' = pa
  /\ nextEventId' = ne
  /\ nextApplicationId' = na
  /\ nextPaymentId' = np

(* A request that returns before db.session.commit(): the session's pending *)
(* attribute changes are discarded when the request's session is removed    *)
NoCommit == UNCHANGED db

---------------------------------------------------------------------------
(* Event registry *)

ValidIsoDates == {"2026-04-15T10:00:00", "2026-05-20T09:00:00"}

(* datetime.fromisoformat: raises ValueError unless the text is ISO-8601 *)
fromisoformat_ok(text) == text \in ValidIsoDates

NewEvent(current_admin_id, data) ==
  [name |-> data.name,
   event_date |-> data.event_date,
   vendor_fee |-> Get(data, "vendor_fee", 0),
   status |-> Get(data, "status", "upcoming"),
   created_by_admin_id |-> current_admin_id,
   default_currency |-> Upper(Get(data, "default_currency", USD)),
   currency_options |->
     normalize_currency_options(Get(data, "currency_options", RawNull),
                                Get(data, "default_currency", USD))]

CreateCurrencyOk(event) ==
  InSeq(event.default_currency, allowed_currencies(event.currency_options))

create_event(actor, data) ==
  /\ UNCHANGED <<now, handlers, isolation>>
  /\ IF ~check_admin(actor)
     THEN NoCommit /\ resp' = Resp("create_event", actor, Null, 403)
     ELSE IF ~Has(data, "name") \/ ~Has(data, "event_date")
     THEN NoCommit /\ resp' = RespTo("create_event", actor, Null, 400, data)
     ELSE IF ~fromisoformat_ok(data.event_date)
     THEN NoCommit /\ resp' = RespTo("create_event", actor, Null, 400, data)
     ELSE LET event == NewEvent(actor, data) IN
          IF ~CreateCurrencyOk(event)
          THEN NoCommit /\ resp' = RespTo("create_event", actor, Null,
                                          400, data)
          ELSE /\ Commit(users, (nextEventId :> event) @@ events, applications,
                         payments, nextEventId + 1, nextApplicationId,
                         nextPaymentId)
               /\ resp' = RespTo("create_event", actor, nextEventId, 201, data)

MergeEventWithOwner(event, data) ==
  LET dc == IF Has(data, "default_currency")
            THEN Upper(data.default_currency) ELSE event.default_currency
  IN [name |-> Get(data, "name", event.name),
      event_date |-> Get(data, "event_date", event.event_date),
      vendor_fee |-> Get(data, "vendor_fee", event.vendor_fee),
      status |-> Get(data, "status", event.status),
      created_by_admin_id |->
        Get(data, "created_by_admin_id", event.created_by_admin_id),
      default_currency |-> dc,
      currency_options |->
        IF Has(data, "currency_options")
        THEN normalize_currency_options(data.currency_options,
                                        Get(data, "default_currency", dc))
        ELSE event.currency_options]

(* The partial update of lines 322-355: only keys present are assigned *)
MergeEvent(event, data) ==
  LET dc == IF Has(data, "default_currency")
            THEN Upper(data.default_currency) ELSE event.default_currency
  IN [name |-> Get(data, "name", event.name),
      event_date |-> Get(data, "event_date", event.event_date),
      vendor_fee |-> Get(data, "vendor_fee", event.vendor_fee),
      status |-> Get(data, "status", event.status),
      created_by_admin_id |-> event.created_by_admin_id,
      default_currency |-> dc,
      currency_options |->
        IF Has(data, "currency_options")
        THEN normalize_currency_options(data.currency_options,
                                        Get(data, "default_currency", dc))
        ELSE event.currency_options]

EventForbiddenNever(actor, event_id) == FALSE

(* lines 316 and 387 *)
EventForbidden(actor, event_id) ==
  events[event_id].created_by_admin_id # actor

UpdateCurrencyUnchecked(event) == TRUE

(* lines 357-361 *)
UpdateCurrencyOk(event) ==
  /\ allowed_currencies(event.currency_options) # <<>>
  /\ InSeq(Upper(event.default_currency),
           allowed_currencies(event.currency_options))

(* lines 322-325: what the handler has assigned when event_date fails *)
(* to parse                                                            *)
AssignedBeforeDate(event, data) ==
  [event EXCEPT !.name = Get(data, "name", event.name)]

RejectedUpdateKept(stored, assigned) == assigned

(* lines 330, 359 and 361: the handler returns without a commit, and the *)
(* attributes it assigned are discarded with the request's session       *)
RejectedUpdate(stored, assigned) == stored

update_event(actor, event_id, data) ==
  /\ UNCHANGED <<now, handlers, isolation>>
  /\ IF ~check_admin(actor)
     THEN NoCommit /\ resp' = Resp("update_event", actor, event_id, 403)
     ELSE IF event_id \notin DOMAIN events
     THEN NoCommit /\ resp' = Resp("update_event", actor, event_id, 404)
     ELSE IF EventForbidden(actor, event_id)
     THEN NoCommit /\ resp' = Resp("update_event", actor, event_id, 403)
     ELSE IF Has(data, "event_date") /\ ~fromisoformat_ok(data.event_date)
     THEN /\ Commit(users,
                    [events EXCEPT ![event_id] =
                       RejectedUpdate(@, AssignedBeforeDate(@, data))],
                    applications, payments, nextEventId,
                    nextApplicationId, nextPaymentId)
          /\ resp' = RespTo("update_event", actor, event_id, 400, data)
     ELSE LET event == MergeEvent(events[event_id], data) IN
          IF ~UpdateCurrencyOk(event)
          THEN /\ Commit(users,
                         [events EXCEPT ![event_id] =
                            RejectedUpdate(@, event)],
                         applications, payments, nextEventId,
                         nextApplicationId, nextPaymentId)
               /\ resp' = RespTo("update_event", actor, event_id, 400, data)
          ELSE /\ Commit(users, [events EXCEPT ![event_id] = event],
                         applications, payments, nextEventId,
                         nextApplicationId, nextPaymentId)
               /\ resp' = RespTo("update_event", actor, event_id, 200, data)

ApplicationsOfEvent(event_id) ==
  {a \in DOMAIN applications : applications[a].event_id = event_id}

DeleteNeverBlocked(event_id) == FALSE

(* lines 391-392 *)
DeleteBlocked(event_id) == Cardinality(ApplicationsOfEvent(event_id)) > 0

(* models.py 74 and 123: deleting an event deletes its applications, *)
(* deleting an application deletes its payments                      *)
CascadeApplications(event_id) ==
  [x \in DOMAIN applications \ ApplicationsOfEvent(event_id)
     |-> applications[x]]

CascadePayments(event_id) ==
  [p \in {q \in DOMAIN payments :
            payments[q].application_id \notin ApplicationsOfEvent(event_id)}
     |-> payments[p]]

Without(f, id) == [x \in DOMAIN f \ {id} |-> f[x]]

delete_event(actor, event_id) ==
  /\ UNCHANGED <<now, handlers, isolation>>
  /\ IF ~check_admin(actor)
     THEN NoCommit /\ resp' = Resp("delete_event", actor, event_id, 403)
     ELSE IF event_id \notin DOMAIN events
     THEN NoCommit /\ resp' = Resp("delete_event", actor, event_id, 404)
     ELSE IF EventForbidden(actor, event_id)
     THEN NoCommit /\ resp' = Resp("delete_event", actor, event_id, 403)
     ELSE IF DeleteBlocked(event_id)
     THEN NoCommit /\ resp' = Resp("delete_event", actor, event_id, 400)
     ELSE /\ Commit(users, Without(events, event_id),
                    CascadeApplications(event_id), CascadePayments(event_id),
                    nextEventId, nextApplicationId, nextPaymentId)
          /\ resp' = Resp("delete_event", actor, event_id, 200)

---------------------------------------------------------------------------
(* Applications: submitted and withdrawn by vendors (vendor_routes) *)

NewApplication(vendor_id, event_id) ==
  [vendor_id |-> vendor_id, event_id |-> event_id, status |-> "pending",
   admin_notes |-> NoText, reviewed_at |-> Null, reviewed_by |-> Null]

apply_to_event(vendor_id, event_id) ==
  /\ vendor_id \in DOMAIN users
  /\ users[vendor_id].role = "vendor"
  /\ event_id \in DOMAIN events
  /\ Commit(users, events,
            (nextApplicationId :> NewApplication(vendor_id, event_id))
              @@ applications,
            payments, nextEventId, nextApplicationId + 1, nextPaymentId)
  /\ resp' = Resp("apply_to_event", vendor_id, nextApplicationId, 201)
  /\ UNCHANGED <<now, handlers, isolation>>

withdraw_application(vendor_id, application_id) ==
  /\ application_id \in DOMAIN applications
  /\ applications[application_id].vendor_id = vendor_id
  /\ applications[application_id].status = "pending"
  /\ Commit(users, events,
            [applications EXCEPT ![application_id].status = "withdrawn"],
            payments, nextEventId, nextApplicationId, nextPaymentId)
  /\ resp' = Resp("withdraw_application", vendor_id, application_id, 200)
  /\ UNCHANGED <<now, handlers, isolation>>

---------------------------------------------------------------------------
(* Application review *)

PaymentsOfApplication(pays, application_id) ==
  {p \in DOMAIN pays : pays[p].application_id = application_id}

ReviewStatusPresent(data) == Has(data, "status")

(* line 174 *)
ReviewStatusValid(data) ==
  Has(data, "status") /\ data.status \in {"approved", "rejected"}

ReviewedApplicationNoStamp(application, current_user_id, data, t) ==
  [application EXCEPT !.status = data.status,
                      !.admin_notes = Get(data, "admin_notes", NoText),
                      !.reviewed_by = current_user_id]

(* lines 178-182 *)
ReviewedApplication(application, current_user_id, data, t) ==
  [application EXCEPT !.status = data.status,
                      !.admin_notes = Get(data, "admin_notes", NoText),
                      !.reviewed_at = t,
                      !.reviewed_by = current_user_id]

NewPaymentWrongVendor(application_id, application, event) ==
  [application_id |-> application_id,
   vendor_id |-> Null,
   amount |-> event.vendor_fee,
   status |-> "pending",
   payment_method |-> NoText,
   transaction_id |-> NoText,
   notes |-> NoText,
   payment_date |-> Null]

(* lines 188-193 *)
NewPayment(application_id, application, event) ==
  [application_id |-> application_id,
   vendor_id |-> application.vendor_id,
   amount |-> event.vendor_fee,
   status |-> "pending",
   payment_method |-> NoText,
   transaction_id |-> NoText,
   notes |-> NoText,
   payment_date |-> Null]

(* line 168 *)
ReviewForbiddenNever(actor, application_id) == FALSE

ReviewForbidden(actor, application_id) ==
  \/ applications[application_id].event_id \notin DOMAIN events
  \/ events[applications[application_id].event_id].created_by_admin_id
       # actor

(* lines 185-194: the payment the review adds, given the Payment rows the *)
(* handler's query sees                                                    *)
NeedsPaymentAlways(data, seen, application_id) == TRUE

NeedsPaymentNever(data, seen, application_id) == FALSE

NeedsPaymentUnchecked(data, seen, application_id) ==
  data.status = "approved"

NeedsPayment(data, seen, application_id) ==
  /\ data.status = "approved"
  /\ PaymentsOfApplication(seen, application_id) = {}

review_application(actor, application_id, data) ==
  /\ UNCHANGED <<now, handlers, isolation>>
  /\ IF ~check_admin(actor)
     THEN NoCommit /\ resp' = Resp("review", actor, application_id, 403)
     ELSE IF application_id \notin DOMAIN applications
     THEN NoCommit /\ resp' = Resp("review", actor, application_id, 404)
     ELSE IF ReviewForbidden(actor, application_id)
     THEN NoCommit /\ resp' = Resp("review", actor, application_id, 403)
     ELSE IF ~ReviewStatusValid(data)
     THEN NoCommit /\ resp' = RespTo("review", actor, application_id,
                                     400, data)
     ELSE LET application == applications[application_id]
              event == events[application.event_id]
              reviewed == ReviewedApplication(application, actor, data, now)
          IN IF NeedsPayment(data, payments, application_id)
             THEN /\ Commit(users, events,
                            [applications EXCEPT ![application_id] = reviewed],
                            (nextPaymentId :>
                               NewPayment(application_id, application, event))
                              @@ payments,
                            nextEventId, nextApplicationId, nextPaymentId + 1)
                  /\ resp' = [Resp("review", actor, application_id, 200)
                                EXCEPT !.body = data]
             ELSE /\ Commit(users, events,
                            [applications EXCEPT ![application_id] = reviewed],
                            payments, nextEventId, nextApplicationId,
                            nextPaymentId)
                  /\ resp' = [Resp("review", actor, application_id, 200)
                                EXCEPT !.body = data]

---------------------------------------------------------------------------
(* Payment ledger *)

PaymentStatuses == {"pending", "completed", "failed", "refunded"}

(* payment -> application -> event -> admin *)
PaymentOwner(payment) ==
  IF /\ payment.application_id \in DOMAIN applications
     /\ applications[payment.application_id].event_id \in DOMAIN events
  THEN events[applications[payment.application_id].event_id]
         .created_by_admin_id
  ELSE Null

PaymentForbiddenNever(actor, payment_id) == FALSE

(* line 441 *)
PaymentForbidden(actor, payment_id) ==
  PaymentOwner(payments[payment_id]) # actor

NewPaymentDateNever(payment, data, t) == payment.payment_date

NewPaymentDateOverwrite(payment, data, t) ==
  IF data.status = "completed" THEN t ELSE payment.payment_date

(* lines 452-454 *)
NewPaymentDate(payment, data, t) ==
  IF data.status = "completed" /\ payment.payment_date = Null
  THEN t ELSE payment.payment_date

UpdatedPaymentRefreshAmount(payment, data, t) ==
  [payment EXCEPT !.status = data.status,
                  !.amount =
                     events[applications[payment.application_id].event_id]
                       .vendor_fee,
                  !.payment_date = NewPaymentDate(payment, data, t)]

(* lines 452-461 *)
UpdatedPayment(payment, data, t) ==
  [payment EXCEPT !.status = data.status,
                  !.payment_date = NewPaymentDate(payment, data, t),
                  !.payment_method =
                     Get(data, "payment_method", payment.payment_method),
                  !.transaction_id =
                     Get(data, "transaction_id", payment.transaction_id),
                  !.notes = Get(data, "notes", payment.notes)]

TransactionIdTakenNever(payment_id, payment) == FALSE

(* models.py line 162: transaction_id is unique (NULLs do not collide) *)
TransactionIdTaken(payment_id, payment) ==
  /\ payment.transaction_id # NoText
  /\ \E q \in DOMAIN payments \ {payment_id} :
        payments[q].transaction_id = payment.transaction_id

update_payment_status(actor, payment_id, data) ==
  /\ UNCHANGED <<now, handlers, isolation>>
  /\ IF ~check_admin(actor)
     THEN NoCommit /\ resp' = Resp("update_payment", actor, payment_id, 403)
     ELSE IF payment_id \notin DOMAIN payments
     THEN NoCommit /\ resp' = Resp("update_payment", actor, payment_id, 404)
     ELSE IF PaymentForbidden(actor, payment_id)
     THEN NoCommit /\ resp' = Resp("update_payment", actor, payment_id, 403)
     ELSE IF ~Has(data, "status") \/ data.status \notin PaymentStatuses
     THEN NoCommit /\ resp' = RespTo("update_payment", actor, payment_id,
                                     400, data)
     ELSE LET payment == UpdatedPayment(payments[payment_id], data, now) IN
          IF TransactionIdTaken(payment_id, payment)
          THEN NoCommit
               /\ resp' = RespTo("update_payment", actor, payment_id,
                                 500, data)
          ELSE /\ Commit(users, events, applications,
                         [payments EXCEPT ![payment_id] = payment],
                         nextEventId, nextApplicationId, nextPaymentId)
               /\ resp' = RespTo("update_payment", actor, payment_id,
                                 200, data)

---------------------------------------------------------------------------
(* Listings and detail views *)

EventOwner(event_id) ==
  IF event_id \in DOMAIN events THEN events[event_id].created_by_admin_id
  ELSE Null

ListedApplicationsUnscoped(current_admin_id, status, event_id) ==
  {a \in DOMAIN applications :
     /\ (status # NoText => applications[a].status = status)
     /\ (event_id # Null => applications[a].event_id = event_id)}

(* lines 137-144: join on Event, owner filter, optional filters *)
ListedApplications(current_admin_id, status, event_id) ==
  {a \in DOMAIN applications :
     /\ applications[a].event_id \in DOMAIN events
     /\ EventOwner(applications[a].event_id) = current_admin_id
     /\ (status # NoText => applications[a].status = status)
     /\ (event_id # Null => applications[a].event_id = event_id)}

get_all_applications(actor, status, event_id) ==
  /\ UNCHANGED <<now, handlers, isolation>>
  /\ NoCommit
  /\ IF ~check_admin(actor)
     THEN resp' = Resp("list_applications", actor, event_id, 403)
     ELSE resp' = [Resp("list_applications", actor, event_id, 200)
                     EXCEPT !.apps = ListedApplications(actor, status, event_id)]

(* lines 419-421 *)
ListedPayments(current_admin_id) ==
  {p \in DOMAIN payments : PaymentOwner(payments[p]) = current_admin_id}

get_all_payments(actor) ==
  /\ UNCHANGED <<now, handlers, isolation>>
  /\ NoCommit
  /\ IF ~check_admin(actor)
     THEN resp' = Resp("list_payments", actor, Null, 403)
     ELSE resp' = [Resp("list_payments", actor, Null, 200)
                     EXCEPT !.pays = ListedPayments(actor)]

(* lines 220-222 *)
ListedEvents(current_admin_id) ==
  {e \in DOMAIN events : events[e].created_by_admin_id = current_admin_id}

get_all_events(actor) ==
  /\ UNCHANGED <<now, handlers, isolation>>
  /\ NoCommit
  /\ IF ~check_admin(actor)
     THEN resp' = Resp("list_events", actor, Null, 403)
     ELSE resp' = [Resp("list_events", actor, Null, 200)
                     EXCEPT !.evts = ListedEvents(actor)]

(* lines 61-62: every vendor account *)
get_all_vendors(actor) ==
  /\ UNCHANGED <<now, handlers, isolation>>
  /\ NoCommit
  /\ IF ~check_admin(actor)
     THEN resp' = Resp("list_vendors", actor, Null, 403)
     ELSE resp' = [Resp("list_vendors", actor, Null, 200)
                     EXCEPT !.vnds = {u \in DOMAIN users :
                                        users[u].role = "vendor"}]

(* lines 80-83: filtered by vendor only *)
VendorApplications(vendor_id) ==
  {a \in DOMAIN applications : applications[a].vendor_id = vendor_id}

VendorPayments(vendor_id) ==
  {p \in DOMAIN payments : payments[p].vendor_id = vendor_id}

get_vendor_details(actor, vendor_id) ==
  /\ UNCHANGED <<now, handlers, isolation>>
  /\ NoCommit
  /\ IF ~check_admin(actor)
     THEN resp' = Resp("vendor_details", actor, vendor_id, 403)
     ELSE IF vendor_id \notin DOMAIN users \/ users[vendor_id].role # "vendor"
     THEN resp' = Resp("vendor_details", actor, vendor_id, 404)
     ELSE resp' = [Resp("vendor_details", actor, vendor_id, 200)
                     EXCEPT !.apps = VendorApplications(vendor_id),
                            !.pays = VendorPayments(vendor_id)]

---------------------------------------------------------------------------
(* Reporting: the dashboard and the applications-by-status chart, as    *)
(* functions of the tables they read (the this-week counts, which read  *)
(* creation timestamps, are left out)                                    *)

(* the instant an event_date text denotes, on the clock of now *)
EventTime(text) ==
  CASE text = "2026-04-15T10:00:00" -> 2
    [] text = "2026-05-20T09:00:00" -> 3
    [] OTHER -> Null

RECURSIVE SumAmounts(_, _)
SumAmounts(pa, ids) ==
  IF ids = {} THEN 0
  ELSE LET p == CHOOSE q \in ids : TRUE
       IN pa[p].amount + SumAmounts(pa, ids \ {p})

(* lines 488-489 *)
OwnedEvents(admin, ev) ==
  {e \in DOMAIN ev : ev[e].created_by_admin_id = admin}

(* line 491 *)
OwnedApplications(admin, ev, ap) ==
  {a \in DOMAIN ap : ap[a].event_id \in OwnedEvents(admin, ev)}

DashboardPaymentsUnscoped(admin, ev, ap, pa) == DOMAIN pa

(* lines 514-516 *)
DashboardPayments(admin, ev, ap, pa) ==
  {p \in DOMAIN pa :
     /\ pa[p].application_id \in DOMAIN ap
     /\ ap[pa[p].application_id].event_id \in OwnedEvents(admin, ev)}

(* lines 488-554 *)
DashboardStats(admin, us, ev, ap, pa, t) ==
  LET owned == OwnedEvents(admin, ev)
      owned_apps == OwnedApplications(admin, ev, ap)
      owned_vendors == {u \in DOMAIN us :
                          /\ us[u].role = "vendor"
                          /\ \E a \in owned_apps : ap[a].vendor_id = u}
      all_payments == DashboardPayments(admin, ev, ap, pa)
      CountApps(st) == Cardinality({a \in owned_apps : ap[a].status = st})
  IN [vendors |->
        [total |-> Cardinality(owned_vendors),
         active |-> Cardinality({u \in owned_vendors : us[u].is_active})],
      applications |->
        [total |-> Cardinality(owned_apps),
         pending |-> CountApps("pending"),
         approved |-> CountApps("approved"),
         rejected |-> CountApps("rejected")],
      events |->
        [total |-> Cardinality(owned),
         upcoming |-> Cardinality({e \in owned :
                                     /\ ev[e].status = "upcoming"
                                     /\ EventTime(ev[e].event_date) > t}),
         ongoing |-> Cardinality({e \in owned : ev[e].status = "ongoing"})],
      revenue |->
        [total |-> SumAmounts(pa, {p \in all_payments :
                                     pa[p].status = "completed"}),
         pending |-> SumAmounts(pa, {p \in all_payments :
                                       pa[p].status = "pending"})]]

get_admin_dashboard_stats(actor) ==
  /\ UNCHANGED <<now, handlers, isolation>>
  /\ NoCommit
  /\ IF ~check_admin(actor)
     THEN resp' = Resp("dashboard_stats", actor, Null, 403)
     ELSE resp' = [Resp("dashboard_stats", actor, Null, 200)
                     EXCEPT !.stats =
                       DashboardStats(actor, users, events, applications,
                                      payments, now)]

(* lines 571-578: one row per status that occurs, with its count *)
ApplicationsByStatus(admin, ev, ap) ==
  LET owned_apps == OwnedApplications(admin, ev, ap)
  IN [st \in {ap[a].status : a \in owned_apps}
        |-> Cardinality({a \in owned_apps : ap[a].status = st})]

get_applications_by_status(actor) ==
  /\ UNCHANGED <<now, handlers, isolation>>
  /\ NoCommit
  /\ IF ~check_admin(actor)
     THEN resp' = Resp("applications_by_status", actor, Null, 403)
     ELSE resp' = [Resp("applications_by_status", actor, Null, 200)
                     EXCEPT !.stats =
                       ApplicationsByStatus(actor, events, applications)]

(* lines 598-606: the owned applications the chart counts (their *)
(* grouping by month of applied_at is not represented)            *)
get_applications_over_time(actor) ==
  /\ UNCHANGED <<now, handlers, isolation>>
  /\ NoCommit
  /\ IF ~check_admin(actor)
     THEN resp' = Resp("applications_over_time", actor, Null, 403)
     ELSE resp' = [Resp("applications_over_time", actor, Null, 200)
                     EXCEPT !.apps =
                       OwnedApplications(actor, events, applications)]

(* lines 626-638: completed, dated payments under owned events, summed *)
(* per payment_date                                                     *)
RevenueByMonth(admin, ev, ap, pa) ==
  LET rows == {p \in DashboardPayments(admin, ev, ap, pa) :
                 /\ pa[p].status = "completed"
                 /\ pa[p].payment_date # Null}
  IN [d \in {pa[p].payment_date : p \in rows}
        |-> SumAmounts(pa, {p \in rows : pa[p].payment_date = d})]

get_revenue_by_month(actor) ==
  /\ UNCHANGED <<now, handlers, isolation>>
  /\ NoCommit
  /\ IF ~check_admin(actor)
     THEN resp' = Resp("revenue_by_month", actor, Null, 403)
     ELSE resp' = [Resp("revenue_by_month", actor, Null, 200)
                     EXCEPT !.stats =
                       RevenueByMonth(actor, events, applications, payments)]

---------------------------------------------------------------------------
(* Identity (auth_routes.py) and the vendor switch of admin_routes.py *)

(* werkzeug's hash: not the password itself, and verifiable against it *)
generate_password_hash(password) == <<"hash", password>>

check_password(user, password) ==
  user.password_hash = generate_password_hash(password)

UsersWithEmail(email) == {u \in DOMAIN users : users[u].email = email}

(* the autoincrement key of users: rows are never deleted *)
NewUserId == Cardinality(DOMAIN users) + 1

RegisterRequired == {"email", "password", "full_name"}

RegisterRoleValid(data) == Get(data, "role", "vendor") \in {"vendor", "admin"}

NewUser(data) ==
  [email |-> data.email,
   full_name |-> data.full_name,
   role |-> Get(data, "role", "vendor"),
   is_active |-> TRUE,
   password_hash |-> generate_password_hash(data.password)]

(* One request handler: idle, or inside a request between two statements *)
Idle ==
  [pc |-> "idle", actor |-> Null, id |-> Null, data |-> <<>>, t |-> Null,
   snap |-> <<>>, fee |-> Null, needs |-> FALSE]

(* register, lines 20-37: the checks, the SELECT of line 31 among them *)
RegisterBegin(h, data) ==
  /\ handlers[h].pc = "idle"
  /\ UNCHANGED <<now, isolation>>
  /\ NoCommit
  /\ IF \E f \in RegisterRequired : ~Has(data, f)
     THEN /\ resp' = [Resp("register", Null, Null, 400) EXCEPT !.body = data]
          /\ UNCHANGED handlers
     ELSE IF UsersWithEmail(data.email) # {}
     THEN /\ resp' = [Resp("register", Null, Null, 409) EXCEPT !.body = data]
          /\ UNCHANGED handlers
     ELSE IF ~RegisterRoleValid(data)
     THEN /\ resp' = [Resp("register", Null, Null, 400) EXCEPT !.body = data]
          /\ UNCHANGED handlers
     ELSE /\ handlers' =
               [handlers EXCEPT ![h] =
                  [Idle EXCEPT !.pc = "checked", !.data = data]]
          /\ UNCHANGED resp

UniqueEmailRefusesNever(email) == FALSE

(* models.py line 12: the unique index on users.email refuses the INSERT *)
UniqueEmailRefuses(email) == UsersWithEmail(email) # {}

(* register, lines 40-64: INSERT and COMMIT; an IntegrityError is caught, *)
(* rolled back and answered with 500                                       *)
RegisterCommit(h) ==
  /\ handlers[h].pc = "checked"
  /\ UNCHANGED <<now, isolation>>
  /\ handlers' = [handlers EXCEPT ![h] = Idle]
  /\ LET data == handlers[h].data IN
     IF UniqueEmailRefuses(data.email)
     THEN /\ NoCommit
          /\ resp' = [Resp("register", Null, Null, 500) EXCEPT !.body = data]
     ELSE /\ Commit((NewUserId :> NewUser(data)) @@ users, events,
                    applications, payments, nextEventId, nextApplicationId,
                    nextPaymentId)
          /\ resp' = [Resp("register", Null, NewUserId, 201)
                        EXCEPT !.body = data, !.token = NewUserId]

(* login, lines 70-104; '' and a missing key are both falsy *)
login(data) ==
  /\ UNCHANGED <<now, handlers, isolation>>
  /\ NoCommit
  /\ IF Get(data, "email", "") = "" \/ Get(data, "password", "") = ""
     THEN resp' = [Resp("login", Null, Null, 400) EXCEPT !.body = data]
     ELSE IF UsersWithEmail(data.email) = {}
     THEN resp' = [Resp("login", Null, Null, 401) EXCEPT !.body = data]
     ELSE LET id == CHOOSE u \in UsersWithEmail(data.email) : TRUE
              user == users[id]
              role == Get(data, "role", "")
          IN IF ~check_password(user, data.password)
             THEN resp' = [Resp("login", Null, Null, 401) EXCEPT !.body = data]
             ELSE IF ~user.is_active
             THEN resp' = [Resp("login", Null, Null, 403) EXCEPT !.body = data]
             ELSE IF role # "" /\ user.role # role
             THEN resp' = [Resp("login", Null, Null, 401) EXCEPT !.body = data]
             ELSE resp' = [Resp("login", Null, id, 200)
                             EXCEPT !.body = data, !.token = id]

UpdatedProfileWithRole(user, data) ==
  [user EXCEPT !.full_name = Get(data, "full_name", user.full_name),
               !.role = Get(data, "role", user.role)]

(* update_profile, lines 143-154: the only fields the handler assigns *)
UpdatedProfile(user, data) ==
  [user EXCEPT !.full_name = Get(data, "full_name", user.full_name),
               !.password_hash =
                  IF Get(data, "password", "") # ""
                  THEN generate_password_hash(data.password)
                  ELSE user.password_hash]

update_profile(actor, data) ==
  /\ UNCHANGED <<now, handlers, isolation>>
  /\ IF actor \notin DOMAIN users
     THEN NoCommit /\ resp' = Resp("update_profile", actor, actor, 404)
     ELSE /\ Commit([users EXCEPT ![actor] = UpdatedProfile(users[actor], data)],
                    events, applications, payments, nextEventId,
                    nextApplicationId, nextPaymentId)
          /\ resp' = [Resp("update_profile", actor, actor, 200)
                        EXCEPT !.body = data]

toggle_vendor_status(actor, vendor_id) ==
  /\ UNCHANGED <<now, handlers, isolation>>
  /\ IF ~check_admin(actor)
     THEN NoCommit /\ resp' = Resp("toggle_vendor_status", actor, vendor_id, 403)
     ELSE IF vendor_id \notin DOMAIN users \/ users[vendor_id].role # "vendor"
     THEN NoCommit /\ resp' = Resp("toggle_vendor_status", actor, vendor_id, 404)
     ELSE /\ Commit([users EXCEPT ![vendor_id].is_active = ~@], events,
                    applications, payments, nextEventId, nextApplicationId,
                    nextPaymentId)
          /\ resp' = Resp("toggle_vendor_status", actor, vendor_id, 200)

---------------------------------------------------------------------------
(* datetime.utcnow() advances between requests *)
Tick ==
  /\ now < MaxTime
  /\ now' = now + 1
  /\ resp' = Resp("none", Null, Null, Null)
  /\ UNCHANGED <<db, handlers, isolation>>

---------------------------------------------------------------------------
(* Principals present at start-up: two admins and a vendor *)
InitUsers ==
  (1 :> [role |-> "admin", is_active |-> TRUE, email |-> "a@x",
         full_name |-> "System Administrator",
         password_hash |-> generate_password_hash("admin123")]) @@
  (2 :> [role |-> "admin", is_active |-> TRUE, email |-> "b@x",
         full_name |-> "Second Administrator",
         password_hash |-> generate_password_hash("admin123")]) @@
  (3 :> [role |-> "vendor", is_active |-> TRUE, email |-> "v@x",
         full_name |-> "John Smith",
         password_hash |-> generate_password_hash("vendor123")])

(* The sample event init_db creates for the first admin (app.py 209-259) *)
SampleEvent ==
  [name |-> "Spring Food Festival 2026",
   event_date |-> "2026-04-15T10:00:00",
   vendor_fee |-> 500,
   status |-> "upcoming",
   created_by_admin_id |-> 1,
   default_currency |-> USD,
   currency_options |-> USD]

EmptyStore ==
  /\ users = InitUsers
  /\ events = <<>>
  /\ applications = <<>>
  /\ payments = <<>>
  /\ nextEventId = 1
  /\ nextApplicationId = 1
  /\ nextPaymentId = 1
  /\ now = 1
  /\ resp = Resp("none", Null, Null, Null)
  /\ handlers = <<>>
  /\ isolation = "read_committed"

(* The store after init_db: the sample event exists, nothing applied yet *)
Init ==
  /\ users = InitUsers
  /\ events = (1 :> SampleEvent)
  /\ applications = <<>>
  /\ payments = <<>>
  /\ nextEventId = 2
  /\ nextApplicationId = 1
  /\ nextPaymentId = 1
  /\ now = 1
  /\ resp = Resp("none", Null, Null, Null)
  /\ handlers = <<>>
  /\ isolation = "read_committed"

Admins == {u \in DOMAIN users : users[u].role = "admin"}
Vendors == {u \in DOMAIN users : users[u].role = "vendor"}
Principals == DOMAIN users

---------------------------------------------------------------------------
(* Spec: the application-to-payment lifecycle, one request at a time *)

UpdateBodies == {[vendor_fee |-> 750]}

ReviewBodies ==
  {[status |-> "approved"],
   [status |-> "rejected", admin_notes |-> "late"],
   [status |-> "pending"]}

PaymentBodies ==
  {[status |-> "completed"], [status |-> "refunded"], [status |-> "paid"]}

UpdateEvent ==
  \E a \in Admins, e \in DOMAIN events, d \in UpdateBodies :
     update_event(a, e, d)

Apply ==
  /\ nextApplicationId <= MaxApplications
  /\ \E v \in Vendors, e \in DOMAIN events : apply_to_event(v, e)

Withdraw ==
  \E v \in Vendors, x \in DOMAIN applications : withdraw_application(v, x)

Review ==
  /\ nextPaymentId <= MaxPayments
  /\ \E a \in Admins, x \in 1..MaxApplications, d \in ReviewBodies :
        review_application(a, x, d)

UpdatePayment ==
  \E a \in Admins, p \in 1..MaxPayments, d \in PaymentBodies :
     update_payment_status(a, p, d)

Next ==
  \/ UpdateEvent
  \/ Apply
  \/ Withdraw
  \/ Review
  \/ UpdatePayment
  \/ Tick

Spec == Init /\ [][Next]_vars

---------------------------------------------------------------------------
(* Properties of the lifecycle specification *)

LastReviewOk ==
  /\ resp.op = "review"
  /\ resp.code = 200
  /\ resp.id \in DOMAIN applications

(* C1: approving the same application again, with any other requests in    *)
(* between, leaves exactly one Payment row for it: no application ever has *)
(* two payments, and right after a successful approval it has exactly one. *)
C1_OnePaymentPerApproval ==
  /\ \A x \in DOMAIN applications :
        Cardinality(PaymentsOfApplication(payments, x)) <= 1
  /\ (LastReviewOk /\ applications[resp.id].status = "approved")
        => Cardinality(PaymentsOfApplication(payments, resp.id)) = 1

(* a repeated approval: the payment of the application just approved has *)
(* already been completed under the earlier approval                      *)
C1_Witness ==
  /\ LastReviewOk
  /\ applications[resp.id].status = "approved"
  /\ \E p \in PaymentsOfApplication(payments, resp.id) :
        payments[p].payment_date # Null

(* C4: approved, rejected and withdrawn are terminal: no step changes the *)
(* status of an application that is in one of them.                       *)
C4_TerminalStatuses ==
  [][\A x \in DOMAIN applications :
        applications[x].status \in {"approved", "rejected", "withdrawn"}
          => applications'[x].status = applications[x].status]_vars

(* C5: a payment is created with the event's vendor_fee of that moment and *)
(* no later step changes its amount or removes it.                          *)
C5_AmountIsSnapshot ==
  [][/\ \A p \in DOMAIN payments :
           /\ p \in DOMAIN payments'
           /\ payments'[p].amount = payments[p].amount
     /\ \A p \in DOMAIN payments' \ DOMAIN payments :
           payments'[p].amount =
             events[applications[payments'[p].application_id].event_id]
               .vendor_fee]_vars

(* the fee was changed after the payment was created, and the application *)
(* was then approved once more                                             *)
C5_Witness ==
  /\ LastReviewOk
  /\ applications[resp.id].status = "approved"
  /\ \E p \in PaymentsOfApplication(payments, resp.id) :
        /\ payments[p].amount
             # events[applications[resp.id].event_id].vendor_fee
        /\ payments[p].status = "completed"

LastPaymentUpdateOk ==
  /\ resp.op = "update_payment"
  /\ resp.code = 200
  /\ resp.id \in DOMAIN payments

(* C6: the first successful update to completed sets payment_date to the *)
(* current time, and once set no step overwrites or clears it.           *)
C6_PaymentDateSetOnce ==
  [][/\ \A p \in DOMAIN payments :
           payments[p].payment_date # Null
             => /\ p \in DOMAIN payments'
                /\ payments'[p].payment_date = payments[p].payment_date
     /\ \A p \in DOMAIN payments :
           (/\ resp'.op = "update_payment" /\ resp'.code = 200
            /\ resp'.id = p
            /\ payments'[p].status = "completed"
            /\ payments[p].payment_date = Null)
             => payments'[p].payment_date = now]_vars

(* a payment completed again at a later time than its payment_date *)
C6_Witness ==
  /\ LastPaymentUpdateOk
  /\ payments[resp.id].status = "completed"
  /\ payments[resp.id].payment_date # Null
  /\ payments[resp.id].payment_date < now

(* C9: a review of an existing application by an admin who does not own *)
(* its event answers 403 and commits nothing, whatever the body.        *)
C9_ForeignReviewForbidden ==
  [][(/\ resp'.op = "review"
      /\ resp'.actor \in Admins
      /\ resp'.id \in DOMAIN applications
      /\ EventOwner(applications[resp'.id].event_id) # resp'.actor)
       => (resp'.code = 403 /\ UNCHANGED db)]_vars

C9_Witness ==
  /\ resp.op = "review"
  /\ resp.code = 403
  /\ resp.actor \in Admins
  /\ resp.id \in DOMAIN applications
  /\ EventOwner(applications[resp.id].event_id) # resp.actor
  /\ applications[resp.id].status = "pending"

(* C11: update_payment_status answers 200 only when the chain payment ->  *)
(* application -> event leads to the acting admin; for a payment under    *)
(* another admin's event it answers 403, for an absent payment 404, and   *)
(* in both cases nothing is committed, so the payment's status,           *)
(* payment_date, payment_method, transaction_id and notes stay as they    *)
(* were.                                                                   *)
C11_PaymentUpdateOwnerOnly ==
  [][(resp'.op = "update_payment" /\ resp'.actor \in Admins)
       => /\ resp'.code = 200
               => /\ resp'.id \in DOMAIN payments
                  /\ PaymentOwner(payments[resp'.id]) = resp'.actor
          /\ resp'.id \notin DOMAIN payments
               => (resp'.code = 404 /\ payments' = payments)
          /\ (/\ resp'.id \in DOMAIN payments
              /\ PaymentOwner(payments[resp'.id]) # resp'.actor)
               => (resp'.code = 403 /\ payments' = payments)]_vars

(* another admin's update of a completed payment was refused *)
C11_Witness ==
  /\ resp.op = "update_payment"
  /\ resp.code = 403
  /\ resp.actor \in Admins
  /\ resp.id \in DOMAIN payments
  /\ PaymentOwner(payments[resp.id]) # resp.actor
  /\ payments[resp.id].status = "completed"

(* C14: reviewed_at and reviewed_by are unset while an application is *)
(* pending, and no step changes them on an application that is no    *)
(* longer pending.                                                    *)
C14_ReviewedOnlyOutOfPending ==
  /\ [](\A x \in DOMAIN applications :
          applications[x].status = "pending"
            => /\ applications[x].reviewed_at = Null
               /\ applications[x].reviewed_by = Null)
  /\ [][\A x \in DOMAIN applications :
          applications[x].status # "pending"
            => /\ applications'[x].reviewed_at = applications[x].reviewed_at
               /\ applications'[x].reviewed_by
                    = applications[x].reviewed_by]_vars

(* C16: an accepted review sets the application's status to the status  *)
(* requested, reviewed_by to the acting admin (the owner of the event),  *)
(* reviewed_at to the current time and admin_notes to the notes of the   *)
(* request.  When it approves and no Payment references the application, *)
(* exactly one Payment is added, for this application, with the event's  *)
(* current vendor_fee as amount, status pending and no payment_date;     *)
(* otherwise the payments are left as they were.                          *)
C16_ReviewEffect ==
  [][(resp'.op = "review" /\ resp'.code = 200)
       => LET x == resp'.id
              d == resp'.body
          IN /\ resp'.actor = EventOwner(applications[x].event_id)
             /\ applications'[x].status = d.status
             /\ applications'[x].reviewed_by = resp'.actor
             /\ applications'[x].reviewed_at = now
             /\ applications'[x].admin_notes = Get(d, "admin_notes", NoText)
             /\ IF /\ d.status = "approved"
                   /\ PaymentsOfApplication(payments, x) = {}
                THEN \E p \in DOMAIN payments' \ DOMAIN payments :
                        /\ DOMAIN payments' = DOMAIN payments \cup {p}
                        /\ \A q \in DOMAIN payments :
                              payments'[q] = payments[q]
                        /\ payments'[p].application_id = x
                        /\ payments'[p].amount
                             = events[applications[x].event_id].vendor_fee
                        /\ payments'[p].status = "pending"
                        /\ payments'[p].payment_date = Null
                ELSE payments' = payments]_vars

(* an approval at a later time, after the fee was raised, created the *)
(* payment with the raised fee                                         *)
C16_Witness ==
  /\ LastReviewOk
  /\ resp.body.status = "approved"
  /\ applications[resp.id].reviewed_at = now
  /\ now > 1
  /\ \E p \in PaymentsOfApplication(payments, resp.id) :
        /\ payments[p].amount = 750
        /\ payments[p].status = "pending"
        /\ payments[p].payment_date = Null

---------------------------------------------------------------------------
(* SpecCurrency: the event registry under requests that exercise the *)
(* currency fields                                                    *)

BaseBody == [name |-> "Fair", event_date |-> "2026-04-15T10:00:00"]

(* "usd,eur"   " , "   "kes"   "kes,usd"   and list elements *)
usd_eur == <<"u", "s", "d", ",", "e", "u", "r">>
blank_comma == <<" ", ",", " ">>
kes == <<"k", "e", "s">>
eur == <<"e", "u", "r">>
kes_usd == <<"k", "e", "s", ",", "u", "s", "d">>
Euros == <<"E", "u", "r", "o", "s">>
usd_padded == <<" ", "u", "s", "d", " ">>
usd_eur_spaced == <<"u", "s", "d", ",", " ", "e", "u", "r">>

CurrencyCreateBodies ==
  {BaseBody,
   BaseBody @@ [default_currency |-> kes],
   BaseBody @@ [currency_options |-> RawStr(usd_eur), default_currency |-> eur],
   BaseBody @@ [currency_options |-> RawStr(usd_eur), default_currency |-> kes],
   BaseBody @@ [currency_options |-> RawList(<<Euros, usd_padded>>),
                default_currency |-> eur],
   BaseBody @@ [currency_options |-> RawList(<<usd_eur_spaced>>),
                default_currency |-> eur],
   BaseBody @@ [currency_options |-> RawList(<<Euros, eur, usd_padded>>),
                default_currency |-> eur],
   BaseBody @@ [currency_options |-> RawStr(blank_comma)]}

CurrencyUpdateBodies ==
  {[default_currency |-> eur],
   [default_currency |-> usd_padded],
   [currency_options |-> RawStr(kes)],
   [currency_options |-> RawNull],
   [currency_options |-> RawStr(blank_comma)],
   [currency_options |-> RawStr(kes_usd), default_currency |-> kes],
   [currency_options |-> RawList(<<Euros>>), default_currency |-> USD],
   [name |-> "Expo", event_date |-> "soon", default_currency |-> kes]}

CurrencyCreate ==
  /\ nextEventId <= MaxEvents
  /\ \E a \in Admins, d \in CurrencyCreateBodies : create_event(a, d)

CurrencyUpdate ==
  \E a \in Admins, e \in 1..MaxEvents, d \in CurrencyUpdateBodies :
     update_event(a, e, d)

NextCurrency == CurrencyCreate \/ CurrencyUpdate

SpecCurrency == EmptyStore /\ [][NextCurrency]_vars

C15_NormalizeIdempotent ==
  \A e \in DOMAIN events :
     normalize_currency_options(RawStr(events[e].currency_options),
                                events[e].default_currency)
       = events[e].currency_options

(* C24: the currency_options an accepted create_event or update_event   *)
(* stores are the request's tokens (the pieces of a string between      *)
(* commas, or the elements of a list) trimmed and upper-cased, EURO and *)
(* EUROS replaced by EUR, empty tokens dropped, later duplicates        *)
(* dropped, joined by commas in first-seen order; or the upper-cased    *)
(* default currency alone when no token remains. A create_event with    *)
(* options ["Euros", " usd "] and default "eur" is accepted and stores  *)
(* "EUR,USD".                                                           *)
C24_NormalizedOptions ==
  [][LET Canon(tok) ==
           LET up == Upper(Strip(tok))
           IN IF up \in {EURO, EUROS} THEN EUR ELSE up
         Expected(raw, default) ==
           LET toks == IF raw.kind = "list" THEN raw.v
                       ELSE IF raw.kind = "str" THEN Split(raw.v) ELSE <<>>
               kept == {i \in 1..Len(toks) :
                          /\ Canon(toks[i]) # <<>>
                          /\ \A j \in 1..(i - 1) :
                                Canon(toks[j]) # Canon(toks[i])}
               nth(k) == CHOOSE i \in kept :
                           Cardinality({j \in kept : j < i}) = k - 1
           IN IF raw.kind = "null" \/ raw.v = <<>> \/ kept = {}
              THEN Upper(default)
              ELSE Join([k \in 1..Cardinality(kept) |-> Canon(toks[nth(k)])])
     IN /\ (resp'.op = "create_event" /\ resp'.code = 201)
           => events'[resp'.id].currency_options
                = Expected(Get(resp'.body, "currency_options", RawNull),
                           Get(resp'.body, "default_currency", USD))
        /\ (/\ resp'.op = "update_event"
            /\ resp'.code = 200
            /\ Has(resp'.body, "currency_options"))
           => events'[resp'.id].currency_options
                = Expected(resp'.body.currency_options,
                           Get(resp'.body, "default_currency",
                               events[resp'.id].default_currency))
        /\ (/\ resp'.op = "create_event"
            /\ resp'.actor \in Admins
            /\ resp'.body =
                 BaseBody @@ [currency_options |->
                                RawList(<<Euros, usd_padded>>),
                              default_currency |-> eur])
           => /\ resp'.code = 201
              /\ events'[resp'.id].default_currency = EUR
              /\ events'[resp'.id].currency_options
                   = <<"E", "U", "R", ",", "U", "S", "D">>]_vars

(* the event of the scenario was created and holds EUR,USD *)
C24_Witness ==
  /\ resp.op = "create_event"
  /\ resp.code = 201
  /\ Has(resp.body, "currency_options")
  /\ resp.body.currency_options = RawList(<<Euros, usd_padded>>)
  /\ events[resp.id].currency_options = EUR \o <<",">> \o USD

(* C29: an update_event answered 400 changes nothing that is stored, and *)
(* the owner's request with an event_date that does not parse is         *)
(* answered 400, whatever other fields it carries.                       *)
C29_RejectedUpdateKeepsEvent ==
  [][/\ (resp'.op = "update_event" /\ resp'.code = 400)
          => UNCHANGED db
     /\ (/\ resp'.op = "update_event"
         /\ resp'.id \in DOMAIN events
         /\ events[resp'.id].created_by_admin_id = resp'.actor
         /\ Has(resp'.body, "event_date")
         /\ resp'.body.event_date \notin ValidIsoDates)
          => resp'.code = 400]_vars

(* a request that renames the event and gives a malformed date was *)
(* refused, and the event still has its name                       *)
C29_Witness ==
  /\ resp.op = "update_event"
  /\ resp.code = 400
  /\ Has(resp.body, "name")
  /\ Has(resp.body, "event_date")
  /\ resp.body.event_date \notin ValidIsoDates
  /\ resp.id \in DOMAIN events
  /\ events[resp.id].name # resp.body.name

---------------------------------------------------------------------------
(* SpecDelete: events with applications and payments, and their deletion *)

DeleteCreate ==
  /\ nextEventId <= MaxEvents
  /\ \E a \in Admins : create_event(a, BaseBody @@ [vendor_fee |-> 500])

DeleteApply ==
  /\ nextApplicationId <= MaxApplications
  /\ \E v \in Vendors, e \in DOMAIN events : apply_to_event(v, e)

DeleteReview ==
  /\ nextPaymentId <= MaxPayments
  /\ \E a \in Admins, x \in DOMAIN applications :
        review_application(a, x, [status |-> "approved"])

DeleteEvent == \E a \in Admins, e \in 1..MaxEvents : delete_event(a, e)

NextDelete == DeleteCreate \/ DeleteApply \/ DeleteReview \/ DeleteEvent

SpecDelete == EmptyStore /\ [][NextDelete]_vars

(* C8: delete_event by the owner answers 400 (the conflict) and removes  *)
(* nothing while an application references the event; with no such       *)
(* application it answers 200 and the event is gone, the rest unchanged. *)
C8_DeleteEvent ==
  [][(/\ resp'.op = "delete_event"
      /\ resp'.id \in DOMAIN events
      /\ events[resp'.id].created_by_admin_id = resp'.actor)
       => IF ApplicationsOfEvent(resp'.id) # {}
          THEN resp'.code = 400 /\ UNCHANGED db
          ELSE /\ resp'.code = 200
               /\ events' = Without(events, resp'.id)
               /\ UNCHANGED <<users, applications, payments>>]_vars

(* the owner's delete was refused for an event whose application has a *)
(* payment                                                              *)
C8_Witness ==
  /\ resp.op = "delete_event"
  /\ resp.code = 400
  /\ resp.id \in DOMAIN events
  /\ events[resp.id].created_by_admin_id = resp.actor
  /\ \E x \in ApplicationsOfEvent(resp.id) :
        PaymentsOfApplication(payments, x) # {}

---------------------------------------------------------------------------
(* SpecRegistry: both admins create, update and delete events, their own *)
(* and each other's                                                       *)

RegistryBodies ==
  {[vendor_fee |-> 750],
   [status |-> "ongoing"],
   [name |-> "Expo", created_by_admin_id |-> 2]}

RegistryCreate ==
  /\ nextEventId <= MaxEvents
  /\ \E a \in Admins : create_event(a, BaseBody @@ [vendor_fee |-> 500])

RegistryUpdate ==
  \E a \in Admins, e \in 1..MaxEvents, d \in RegistryBodies :
     update_event(a, e, d)

RegistryDelete == \E a \in Admins, e \in 1..MaxEvents : delete_event(a, e)

NextRegistry == RegistryCreate \/ RegistryUpdate \/ RegistryDelete

SpecRegistry == EmptyStore /\ [][NextRegistry]_vars

(* C12: update_event and delete_event answer 404 for an absent event and *)
(* 403 for an event the acting admin does not own, and in both cases the *)
(* events are left exactly as they were: not modified, not deleted.      *)
C12_EventOwnerOnly ==
  [][(resp'.op \in {"update_event", "delete_event"} /\ resp'.actor \in Admins)
       => /\ resp'.id \notin DOMAIN events
               => (resp'.code = 404 /\ UNCHANGED db)
          /\ (/\ resp'.id \in DOMAIN events
              /\ events[resp'.id].created_by_admin_id # resp'.actor)
               => (resp'.code = 403 /\ UNCHANGED db)]_vars

(* another admin's delete of an event that its owner had updated was *)
(* refused                                                            *)
C12_Witness ==
  /\ resp.op = "delete_event"
  /\ resp.code = 403
  /\ resp.actor \in Admins
  /\ resp.id \in DOMAIN events
  /\ events[resp.id].created_by_admin_id # resp.actor
  /\ events[resp.id].vendor_fee = 750

(* C23: an update_event answered 200 sets each field the request carries *)
(* (default_currency upper-cased) and leaves every field the request     *)
(* does not carry as it was; created_by_admin_id keeps its value whether *)
(* or not the request carries one; no other row changes. (updated_at is  *)
(* not represented.)                                                     *)
C23_PartialUpdate ==
  [][(resp'.op = "update_event" /\ resp'.code = 200)
       => LET b == resp'.body
              old == events[resp'.id]
              new == events'[resp'.id]
          IN /\ \A f \in {"name", "event_date", "vendor_fee", "status"} :
                   new[f] = IF f \in DOMAIN b THEN b[f] ELSE old[f]
             /\ new.default_currency =
                   IF "default_currency" \in DOMAIN b
                   THEN Upper(b.default_currency) ELSE old.default_currency
             /\ "currency_options" \notin DOMAIN b
                   => new.currency_options = old.currency_options
             /\ new.created_by_admin_id = old.created_by_admin_id
             /\ DOMAIN events' = DOMAIN events
             /\ \A e \in DOMAIN events \ {resp'.id} :
                   events'[e] = events[e]
             /\ UNCHANGED <<users, applications, payments>>]_vars

(* an accepted request carried another admin's id as created_by_admin_id, *)
(* and the event is renamed and still owned by its creator                *)
C23_Witness ==
  /\ resp.op = "update_event"
  /\ resp.code = 200
  /\ Has(resp.body, "created_by_admin_id")
  /\ resp.body.created_by_admin_id # resp.actor
  /\ events[resp.id].created_by_admin_id = resp.actor
  /\ events[resp.id].name = resp.body.name

---------------------------------------------------------------------------
(* SpecList: two admins' events, applications and payments, and the *)
(* admin listings and detail views over them                         *)

ListCreate ==
  /\ nextEventId <= MaxEvents
  /\ \E a \in Admins : create_event(a, BaseBody @@ [vendor_fee |-> 500])

ListApply ==
  /\ nextApplicationId <= MaxListed
  /\ \E v \in Vendors, e \in DOMAIN events : apply_to_event(v, e)

ListReview ==
  /\ nextPaymentId <= MaxListed
  /\ \E a \in Admins, x \in DOMAIN applications :
        review_application(a, x, [status |-> "approved"])

ListApplications ==
  \E a \in Admins, st \in {NoText, "approved"}, e \in {Null} \cup DOMAIN events :
     get_all_applications(a, st, e)

ListPayments == \E a \in Admins : get_all_payments(a)

ListEvents == \E a \in Admins : get_all_events(a)

VendorDetails == \E a \in Admins, v \in Principals : get_vendor_details(a, v)

NextList ==
  \/ ListCreate
  \/ ListApply
  \/ ListReview
  \/ ListApplications
  \/ ListPayments
  \/ ListEvents
  \/ VendorDetails

SpecList == EmptyStore /\ [][NextList]_vars

(* C3: whatever an admin listing or detail view returns belongs to the *)
(* acting admin: every event returned is owned by the admin, and every *)
(* application and payment returned is under an event the admin owns.  *)
C3_ViewsAreOwnerScoped ==
  resp.code = 200
    => /\ \A e \in resp.evts : EventOwner(e) = resp.actor
       /\ \A x \in resp.apps :
             EventOwner(applications[x].event_id) = resp.actor
       /\ \A p \in resp.pays : PaymentOwner(payments[p]) = resp.actor

(* C10: the application listing returns only applications under events *)
(* the acting admin owns, for every filter; an event_id filter naming  *)
(* another admin's event returns nothing.                              *)
C10_ListedApplicationsOwned ==
  (resp.op = "list_applications" /\ resp.code = 200)
    => /\ \A x \in resp.apps :
             EventOwner(applications[x].event_id) = resp.actor
       /\ (resp.id # Null /\ EventOwner(resp.id) # resp.actor)
             => resp.apps = {}

(* the admin filtered on another admin's event, which has an application, *)
(* while an application under an event of the admin's own exists too      *)
C10_Witness ==
  /\ resp.op = "list_applications"
  /\ resp.code = 200
  /\ resp.id \in DOMAIN events
  /\ EventOwner(resp.id) # resp.actor
  /\ ApplicationsOfEvent(resp.id) # {}
  /\ \E x \in DOMAIN applications :
        EventOwner(applications[x].event_id) = resp.actor

---------------------------------------------------------------------------
(* SpecConc: review requests served by concurrent handlers, each in its  *)
(* own transaction.  The handler's statements, in order: the reads of    *)
(* lines 158-168 (the first of them opens the transaction), the UPDATE   *)
(* of the application that the session flushes before the query of line  *)
(* 186 (it takes the row's write lock until the transaction ends), the   *)
(* SELECT of line 186, and the INSERT and COMMIT of lines 194-196.       *)
(* Under READ COMMITTED (PostgreSQL, config.py 28) the SELECT sees what  *)
(* is committed when it runs; under REPEATABLE READ (MySQL/InnoDB,       *)
(* setup_mysql.py) it sees what was committed when the transaction began.*)

IsolationLevels == {"read_committed", "repeatable_read"}

(* the sample pending application of init_db (app.py 273-279) *)
InitConc ==
  /\ users = InitUsers
  /\ events = (1 :> SampleEvent)
  /\ applications = (1 :> NewApplication(3, 1))
  /\ payments = <<>>
  /\ nextEventId = 2
  /\ nextApplicationId = 2
  /\ nextPaymentId = 1
  /\ now = 1
  /\ resp = Resp("none", Null, Null, Null)
  /\ handlers = [h \in 1..MaxHandlers |-> Idle]
  /\ isolation \in IsolationLevels

(* lines 158-182: the guards, and the attribute changes held in the session *)
ReviewBegin(h, actor, application_id, data) ==
  /\ handlers[h].pc = "idle"
  /\ UNCHANGED <<now, isolation>>
  /\ NoCommit
  /\ IF ~check_admin(actor)
     THEN /\ resp' = Resp("review", actor, application_id, 403)
          /\ UNCHANGED handlers
     ELSE IF application_id \notin DOMAIN applications
     THEN /\ resp' = Resp("review", actor, application_id, 404)
          /\ UNCHANGED handlers
     ELSE IF ReviewForbidden(actor, application_id)
     THEN /\ resp' = Resp("review", actor, application_id, 403)
          /\ UNCHANGED handlers
     ELSE IF ~ReviewStatusValid(data)
     THEN /\ resp' = RespTo("review", actor, application_id, 400, data)
          /\ UNCHANGED handlers
     ELSE /\ handlers' =
               [handlers EXCEPT ![h] =
                  [pc |-> "begun", actor |-> actor, id |-> application_id,
                   data |-> data, t |-> now, snap |-> payments,
                   fee |-> events[applications[application_id].event_id]
                             .vendor_fee,
                   needs |-> FALSE]]
          /\ UNCHANGED resp

RowLocked(application_id) ==
  \E g \in DOMAIN handlers :
     /\ handlers[g].pc \in {"flushed", "queried"}
     /\ handlers[g].id = application_id

(* the flush before line 186: UPDATE vendor_applications ... WHERE id = ? *)
ReviewFlush(h) ==
  /\ handlers[h].pc = "begun"
  /\ ~RowLocked(handlers[h].id)
  /\ handlers' = [handlers EXCEPT ![h].pc = "flushed"]
  /\ NoCommit
  /\ UNCHANGED <<now, resp, isolation>>

(* the Payment rows the SELECT of line 186 sees *)
SeenPayments(h) ==
  IF isolation = "repeatable_read" THEN handlers[h].snap ELSE payments

(* lines 185-187 *)
ReviewQuery(h) ==
  /\ handlers[h].pc = "flushed"
  /\ handlers' =
       [handlers EXCEPT ![h].pc = "queried",
                        ![h].needs =
                           NeedsPayment(handlers[h].data, SeenPayments(h),
                                        handlers[h].id)]
  /\ NoCommit
  /\ UNCHANGED <<now, resp, isolation>>

(* lines 188-201 *)
ReviewCommit(h) ==
  /\ handlers[h].pc = "queried"
  /\ LET me == handlers[h]
         application == applications[me.id]
         reviewed == ReviewedApplication(application, me.actor, me.data, me.t)
     IN /\ Commit(users, events,
                  [applications EXCEPT ![me.id] = reviewed],
                  IF me.needs
                  THEN (nextPaymentId :>
                          NewPayment(me.id, application,
                                     [vendor_fee |-> me.fee])) @@ payments
                  ELSE payments,
                  nextEventId, nextApplicationId,
                  IF me.needs THEN nextPaymentId + 1 ELSE nextPaymentId)
        /\ resp' = [Resp("review", me.actor, me.id, 200)
                      EXCEPT !.body = me.data]
  /\ handlers' = [handlers EXCEPT ![h] = Idle]
  /\ UNCHANGED <<now, isolation>>

ConcBegin ==
  \E h \in 1..MaxHandlers, a \in Admins, x \in DOMAIN applications,
     d \in {[status |-> "approved"], [status |-> "rejected"]} :
     ReviewBegin(h, a, x, d)

ConcFlush == \E h \in 1..MaxHandlers : ReviewFlush(h)

ConcQuery == \E h \in 1..MaxHandlers : ReviewQuery(h)

ConcCommit == \E h \in 1..MaxHandlers : ReviewCommit(h)

NextConc == ConcBegin \/ ConcFlush \/ ConcQuery \/ ConcCommit

SpecConc == InitConc /\ [][NextConc]_vars

AllFinished == \A h \in DOMAIN handlers : handlers[h].pc = "idle"

(* C2: once every concurrent review request has finished, at most one *)
(* Payment row references any application.                            *)
C2_NoDuplicatePayments ==
  AllFinished
    => \A x \in DOMAIN applications :
          Cardinality(PaymentsOfApplication(payments, x)) <= 1

(* C13: the status change and the Payment insert of an approving review *)
(* are one commit.  In every committed state, whatever the other        *)
(* handlers are doing, an approved application has a Payment; and a     *)
(* Payment appears only in the commit that sets its application to      *)
(* approved.                                                            *)
C13_ReviewCommitsTogether ==
  /\ [](\A x \in DOMAIN applications :
          applications[x].status = "approved"
            => PaymentsOfApplication(payments, x) # {})
  /\ [][\A p \in DOMAIN payments' \ DOMAIN payments :
          /\ payments'[p].application_id \in DOMAIN applications'
          /\ applications'[payments'[p].application_id].status
               = "approved"]_vars

(* one handler has committed its approval while another review of the *)
(* same application is still between its UPDATE and its COMMIT        *)
C13_Witness ==
  /\ \E h \in DOMAIN handlers :
        handlers[h].pc \in {"flushed", "queried"} /\ handlers[h].id = 1
  /\ applications[1].status = "approved"
  /\ PaymentsOfApplication(payments, 1) # {}

---------------------------------------------------------------------------
(* SpecAuth: registration served by concurrent handlers, login, profile *)
(* updates and the admins' vendor switch                                 *)

RegisterBodies ==
  {[email |-> "n@x", password |-> "pw1", full_name |-> "New Vendor"],
   [email |-> "n@x", password |-> "pw2", full_name |-> "New Admin",
    role |-> "admin"],
   [email |-> "v@x", password |-> "pw1", full_name |-> "Copy"],
   [email |-> "m@x", password |-> "pw1", full_name |-> "Root",
    role |-> "superuser"],
   [email |-> "m@x", password |-> "pw1"]}

LoginBodies ==
  {[email |-> "v@x", password |-> "vendor123"],
   [email |-> "v@x", password |-> "vendor123", role |-> "admin"],
   [email |-> "v@x", password |-> "wrong"],
   [email |-> "a@x", password |-> "admin123", role |-> "admin"],
   [email |-> "z@x", password |-> "vendor123"],
   [email |-> "v@x"]}

ProfileBodies ==
  {[full_name |-> "Renamed", password |-> "pw2", role |-> "admin"]}

InitAuth ==
  /\ users = InitUsers
  /\ events = <<>>
  /\ applications = <<>>
  /\ payments = <<>>
  /\ nextEventId = 1
  /\ nextApplicationId = 1
  /\ nextPaymentId = 1
  /\ now = 1
  /\ resp = Resp("none", Null, Null, Null)
  /\ handlers = [h \in 1..MaxHandlers |-> Idle]
  /\ isolation = "read_committed"

AuthRegisterBegin ==
  /\ Cardinality(DOMAIN users) < MaxUsers
  /\ \E h \in 1..MaxHandlers, d \in RegisterBodies : RegisterBegin(h, d)

AuthRegisterCommit == \E h \in 1..MaxHandlers : RegisterCommit(h)

AuthLogin == \E d \in LoginBodies : login(d)

AuthUpdateProfile ==
  \E u \in Principals, d \in ProfileBodies : update_profile(u, d)

AuthToggle ==
  \E a \in Admins, v \in Principals : toggle_vendor_status(a, v)

NextAuth ==
  \/ AuthRegisterBegin
  \/ AuthRegisterCommit
  \/ AuthLogin
  \/ AuthUpdateProfile
  \/ AuthToggle

SpecAuth == InitAuth /\ [][NextAuth]_vars

(* C17: the role of an existing principal never changes, and principals *)
(* are never removed, whatever register, login, update_profile (even    *)
(* with a role key in its body) or toggle_vendor_status do.             *)
C17_RoleImmutable ==
  [][\A u \in DOMAIN users :
        /\ u \in DOMAIN users'
        /\ users'[u].role = users[u].role]_vars

(* a vendor's profile update that asked for the admin role was accepted *)
C17_Witness ==
  /\ resp.op = "update_profile"
  /\ resp.code = 200
  /\ Has(resp.body, "role")
  /\ resp.body.role = "admin"
  /\ users[resp.actor].role = "vendor"
  /\ users[resp.actor].full_name = "Renamed"

(* C18: login issues a token only when the email exists, the password   *)
(* matches, the account is active and the role asked for (when given)   *)
(* is the stored role; otherwise (bad credentials, deactivated account, *)
(* role mismatch) it answers 401 Unauthorized and issues no token.      *)
C18_AuthenticateOrUnauthorized ==
  (/\ resp.op = "login"
   /\ Has(resp.body, "email")
   /\ Has(resp.body, "password"))
    => LET d == resp.body
           Entitled ==
             {u \in UsersWithEmail(d.email) :
                /\ check_password(users[u], d.password)
                /\ users[u].is_active
                /\ Has(d, "role") => users[u].role = d.role}
       IN IF Entitled # {}
          THEN resp.code = 200 /\ resp.token \in Entitled
          ELSE resp.code = 401 /\ resp.token = Null

(* C19: a register call that finds its email taken answers 409, one with *)
(* a role other than vendor or admin answers 400, and neither creates a  *)
(* principal; a call is accepted only with a free email and a valid      *)
(* role.  When two calls race for one email the unique index refuses the *)
(* second INSERT (answered 500), so no two principals ever share an      *)
(* email.                                                                 *)
C19_RegisterUniqueEmail ==
  /\ [](\A u, v \in DOMAIN users :
          users[u].email = users[v].email => u = v)
  /\ [][LET d == resp'.body
            PastCheck == \E h \in DOMAIN handlers :
                            handlers[h].pc = "checked"
                              /\ handlers'[h].pc = "idle"
            Admitted == \E h \in DOMAIN handlers :
                           handlers[h].pc = "idle"
                             /\ handlers'[h].pc = "checked"
        IN (/\ resp'.op = "register"
            /\ ~Admitted
            /\ \A f \in RegisterRequired : Has(d, f))
             => /\ UsersWithEmail(d.email) # {}
                     => /\ users' = users
                        /\ IF PastCheck THEN resp'.code = 500
                           ELSE resp'.code = 409
                /\ (UsersWithEmail(d.email) = {} /\ ~RegisterRoleValid(d))
                     => (users' = users /\ resp'.code = 400)
                /\ resp'.code = 201
                     => /\ UsersWithEmail(d.email) = {}
                        /\ RegisterRoleValid(d)
                        /\ resp'.token \in DOMAIN users' \ DOMAIN users
                        /\ users'[resp'.token].email = d.email]_vars

(* two registrations of one email raced: the first was stored, the second *)
(* had passed its check and was refused at its INSERT                      *)
C19_Witness ==
  /\ resp.op = "register"
  /\ resp.code = 500
  /\ Cardinality(UsersWithEmail(resp.body.email)) = 1

---------------------------------------------------------------------------
(* SpecReport: two admins run their events, applications and payments, *)
(* and read their reports                                               *)

(* the store once each admin has an event: init_db's sample event and *)
(* one the second admin created                                       *)
InitReport ==
  /\ users = InitUsers
  /\ events = (1 :> SampleEvent)
                @@ (2 :> NewEvent(2, BaseBody @@ [vendor_fee |-> 500]))
  /\ applications = <<>>
  /\ payments = <<>>
  /\ nextEventId = 3
  /\ nextApplicationId = 1
  /\ nextPaymentId = 1
  /\ now = 1
  /\ resp = Resp("none", Null, Null, Null)
  /\ handlers = <<>>
  /\ isolation = "read_committed"

ReportApply ==
  /\ nextApplicationId <= MaxListed
  /\ \E v \in Vendors, e \in DOMAIN events : apply_to_event(v, e)

ReportReview ==
  /\ nextPaymentId <= MaxListed
  /\ \E a \in Admins, x \in DOMAIN applications :
        review_application(a, x, [status |-> "approved"])

ReportUpdatePayment ==
  \E a \in Admins, p \in DOMAIN payments :
     update_payment_status(a, p, [status |-> "completed"])

ReportUpdateEvent ==
  \E a \in Admins, e \in DOMAIN events :
     update_event(a, e, [status |-> "ongoing"])

ReportDashboard == \E a \in Admins : get_admin_dashboard_stats(a)

ReportByStatus == \E a \in Admins : get_applications_by_status(a)

NextReport ==
  \/ ReportApply
  \/ ReportReview
  \/ ReportUpdatePayment
  \/ ReportUpdateEvent
  \/ ReportDashboard
  \/ ReportByStatus

SpecReport == InitReport /\ [][NextReport]_vars

(* C20: whatever one admin does (to the admin's own events, applications *)
(* and payments, or refused on another's), every other admin's report is *)
(* unchanged: the dashboard's application counts, event counts, total    *)
(* and pending revenue, and the applications-by-status counts.           *)
C20_ReportsIsolated ==
  [][\A A \in Admins :
        resp'.actor \in Admins \ {A}
          => LET before == DashboardStats(A, users, events, applications,
                                          payments, now)
                 after == DashboardStats(A, users', events', applications',
                                         payments', now')
             IN /\ after.applications = before.applications
                /\ after.events = before.events
                /\ after.revenue = before.revenue
                /\ ApplicationsByStatus(A, events', applications')
                     = ApplicationsByStatus(A, events, applications)]_vars

(* an admin completed a payment of the admin's own while the other admin *)
(* has completed revenue too                                              *)
C20_Witness ==
  /\ LastPaymentUpdateOk
  /\ resp.actor \in Admins
  /\ DashboardStats(resp.actor, users, events, applications, payments, now)
       .revenue.total > 0
  /\ \E A \in Admins \ {resp.actor} :
        DashboardStats(A, users, events, applications, payments, now)
          .revenue.total > 0

---------------------------------------------------------------------------
(* SpecLedger: two vendors' applications to the sample event, reviews  *)
(* with valid and invalid bodies, and payment updates that carry       *)
(* transaction ids                                                      *)

(* init_db creates several vendors (app.py 171-204) *)
InitLedger ==
  /\ users = InitUsers
               @@ (4 :> [role |-> "vendor", is_active |-> TRUE,
                         email |-> "w@x", full_name |-> "Sarah Johnson",
                         password_hash |->
                           generate_password_hash("vendor123")])
  /\ events = (1 :> SampleEvent)
  /\ applications = <<>>
  /\ payments = <<>>
  /\ nextEventId = 2
  /\ nextApplicationId = 1
  /\ nextPaymentId = 1
  /\ now = 1
  /\ resp = Resp("none", Null, Null, Null)
  /\ handlers = <<>>
  /\ isolation = "read_committed"

LedgerReviewBodies ==
  {[status |-> "approved"],
   [status |-> "rejected"],
   [status |-> "withdrawn"],
   [admin_notes |-> "no status"]}

LedgerPaymentBodies ==
  {[status |-> "completed", transaction_id |-> "TX1"],
   [status |-> "failed", transaction_id |-> "TX1", payment_method |-> "card",
    notes |-> "retry"],
   [status |-> "completed"]}

LedgerApply ==
  /\ nextApplicationId <= MaxListed
  /\ \E v \in Vendors, e \in DOMAIN events : apply_to_event(v, e)

LedgerReview ==
  /\ nextPaymentId <= MaxListed
  /\ \E a \in Admins, x \in 1..MaxListed, d \in LedgerReviewBodies :
        review_application(a, x, d)

LedgerUpdatePayment ==
  \E a \in Admins, p \in DOMAIN payments, d \in LedgerPaymentBodies :
     update_payment_status(a, p, d)

NextLedger == LedgerApply \/ LedgerReview \/ LedgerUpdatePayment

SpecLedger == InitLedger /\ [][NextLedger]_vars

(* C21: an update_payment_status request whose transaction_id is already *)
(* held by another payment fails at its commit and is rolled back: it    *)
(* is not answered 200, and the payment's status, payment_date,          *)
(* payment_method, transaction_id and notes (every payment, in fact)     *)
(* are as before.                                                         *)
C21_FailedCommitRollsBack ==
  [][(/\ resp'.op = "update_payment"
      /\ resp'.id \in DOMAIN payments
      /\ PaymentOwner(payments[resp'.id]) = resp'.actor
      /\ Has(resp'.body, "status")
      /\ resp'.body.status \in PaymentStatuses
      /\ Has(resp'.body, "transaction_id")
      /\ \E q \in DOMAIN payments \ {resp'.id} :
            payments[q].transaction_id = resp'.body.transaction_id)
       => (resp'.code = 500 /\ payments' = payments)]_vars

(* the refused request asked for completed with a transaction id that *)
(* another payment holds; the payment is still pending and undated    *)
C21_Witness ==
  /\ resp.op = "update_payment"
  /\ resp.code = 500
  /\ resp.body.status = "completed"
  /\ payments[resp.id].status = "pending"
  /\ payments[resp.id].payment_date = Null
  /\ payments[resp.id].transaction_id = NoText

(* C25: a review of an absent application answers 404; of an application *)
(* under another admin's event, 403; and the owner's review whose status *)
(* is missing or is not approved or rejected answers 400.  In each case  *)
(* the application is unchanged and no Payment is created.               *)
C25_ReviewRefusals ==
  [][(resp'.op = "review" /\ resp'.actor \in Admins)
       => /\ resp'.id \notin DOMAIN applications
               => (resp'.code = 404 /\ UNCHANGED db)
          /\ (/\ resp'.id \in DOMAIN applications
              /\ EventOwner(applications[resp'.id].event_id) # resp'.actor)
               => (resp'.code = 403 /\ UNCHANGED db)
          /\ (/\ resp'.id \in DOMAIN applications
              /\ EventOwner(applications[resp'.id].event_id) = resp'.actor)
               => IF /\ Has(resp'.body, "status")
                     /\ resp'.body.status \in {"approved", "rejected"}
                  THEN resp'.code = 200
                  ELSE /\ resp'.code = 400
                       /\ applications' = applications
                       /\ payments' = payments]_vars

(* the owner asked for the status withdrawn on an application that is *)
(* still pending                                                       *)
C25_Witness ==
  /\ resp.op = "review"
  /\ resp.code = 400
  /\ Has(resp.body, "status")
  /\ resp.body.status = "withdrawn"
  /\ resp.id \in DOMAIN applications
  /\ applications[resp.id].status = "pending"
  /\ PaymentsOfApplication(payments, resp.id) = {}

(* C26: every Payment references an existing Application, and its *)
(* vendor_id is that application's vendor_id.                      *)
C26_PaymentVendorIsApplicant ==
  \A p \in DOMAIN payments :
     /\ payments[p].application_id \in DOMAIN applications
     /\ payments[p].vendor_id
          = applications[payments[p].application_id].vendor_id

(* two vendors' applications have both been approved *)
C26_Witness ==
  \E p, q \in DOMAIN payments :
     /\ payments[p].vendor_id # payments[q].vendor_id
     /\ payments[p].status = "completed"

(* C27: a Payment whose status is completed has its payment_date set. *)
(* (The converse is not claimed: a payment taken out of completed     *)
(* keeps its payment_date.)                                            *)
C27_CompletedHasDate ==
  \A p \in DOMAIN payments :
     payments[p].status = "completed" => payments[p].payment_date # Null

(* one payment is completed and dated, another was completed and then *)
(* failed and is still dated                                           *)
C27_Witness ==
  /\ \E p \in DOMAIN payments :
        payments[p].status = "completed" /\ payments[p].payment_date # Null
  /\ \E q \in DOMAIN payments :
        payments[q].status = "failed" /\ payments[q].payment_date # Null

(* C30: an accepted review with status rejected leaves the payments as *)
(* they were: none created, none deleted, none modified.               *)
C30_RejectKeepsPayments ==
  [][(/\ resp'.op = "review"
      /\ resp'.code = 200
      /\ resp'.body.status = "rejected")
       => payments' = payments]_vars

(* an application was rejected after its approval had created a payment *)
(* that has since been completed                                         *)
C30_Witness ==
  /\ LastReviewOk
  /\ resp.body.status = "rejected"
  /\ applications[resp.id].status = "rejected"
  /\ \E p \in PaymentsOfApplication(payments, resp.id) :
        payments[p].status = "completed"

---------------------------------------------------------------------------
(* SpecPayConc: update_payment_status served by concurrent handlers.    *)
(* The handler reads the Payment row once (line 435), assigns to the    *)
(* loaded object (lines 452-461) and commits (line 464); the UPDATE the *)
(* commit flushes sets the columns whose value the handler changed.     *)

(* an approved application and its pending payment *)
InitPayConc ==
  /\ users = InitUsers
  /\ events = (1 :> SampleEvent)
  /\ applications =
       (1 :> ReviewedApplication(NewApplication(3, 1), 1,
                                 [status |-> "approved"], 1))
  /\ payments = (1 :> NewPayment(1, NewApplication(3, 1), SampleEvent))
  /\ nextEventId = 2
  /\ nextApplicationId = 2
  /\ nextPaymentId = 2
  /\ now = 1
  /\ resp = Resp("none", Null, Null, Null)
  /\ handlers = [h \in 1..MaxHandlers |-> Idle]
  /\ isolation = "read_committed"

(* lines 432-461: the guards, the read of the row and the assignments *)
PaymentUpdateBegin(h, actor, payment_id, data) ==
  /\ handlers[h].pc = "idle"
  /\ UNCHANGED <<now, isolation>>
  /\ NoCommit
  /\ IF ~check_admin(actor)
     THEN /\ resp' = Resp("update_payment", actor, payment_id, 403)
          /\ UNCHANGED handlers
     ELSE IF payment_id \notin DOMAIN payments
     THEN /\ resp' = Resp("update_payment", actor, payment_id, 404)
          /\ UNCHANGED handlers
     ELSE IF PaymentForbidden(actor, payment_id)
     THEN /\ resp' = Resp("update_payment", actor, payment_id, 403)
          /\ UNCHANGED handlers
     ELSE IF ~Has(data, "status") \/ data.status \notin PaymentStatuses
     THEN /\ resp' = RespTo("update_payment", actor, payment_id, 400, data)
          /\ UNCHANGED handlers
     ELSE /\ handlers' =
               [handlers EXCEPT ![h] =
                  [Idle EXCEPT !.pc = "assigned", !.actor = actor,
                               !.id = payment_id, !.data = data,
                               !.t = now, !.snap = payments]]
          /\ UNCHANGED resp

(* the row after the UPDATE of a handler that loaded `read` and holds *)
(* `assigned`: only the columns it changed are written                 *)
FlushedPayment(stored, read, assigned) ==
  [c \in DOMAIN stored |->
     IF assigned[c] # read[c] THEN assigned[c] ELSE stored[c]]

(* line 464 *)
PaymentUpdateCommit(h) ==
  /\ handlers[h].pc = "assigned"
  /\ UNCHANGED <<now, isolation>>
  /\ handlers' = [handlers EXCEPT ![h] = Idle]
  /\ LET me == handlers[h]
         read == me.snap[me.id]
         assigned == UpdatedPayment(read, me.data, me.t)
         payment == FlushedPayment(payments[me.id], read, assigned)
     IN IF TransactionIdTaken(me.id, payment)
        THEN /\ NoCommit
             /\ resp' = RespTo("update_payment", me.actor, me.id, 500,
                               me.data)
        ELSE /\ Commit(users, events, applications,
                       [payments EXCEPT ![me.id] = payment],
                       nextEventId, nextApplicationId, nextPaymentId)
             /\ resp' = RespTo("update_payment", me.actor, me.id, 200,
                               me.data)

PayConcBodies == {[status |-> "completed"], [status |-> "refunded"]}

PayConcBegin ==
  \E h \in 1..MaxHandlers, a \in Admins, p \in DOMAIN payments,
     d \in PayConcBodies :
     PaymentUpdateBegin(h, a, p, d)

PayConcCommit == \E h \in 1..MaxHandlers : PaymentUpdateCommit(h)

NextPayConc == PayConcBegin \/ PayConcCommit \/ Tick

SpecPayConc == InitPayConc /\ [][NextPayConc]_vars

(* C28: when concurrent requests complete the same undated payment, the *)
(* payment_date stored by the first commit stays: no later commit       *)
(* changes a payment_date that is set.                                   *)
C28_FirstCommitWins ==
  [][\A p \in DOMAIN payments :
        payments[p].payment_date # Null
          => payments'[p].payment_date = payments[p].payment_date]_vars

---------------------------------------------------------------------------
(* SpecGuard: every /admin operation, called by the admins, by a vendor *)
(* and with a token whose identity is no stored principal               *)

(* an identity that resolves to no row of users *)
NoPrincipal == 9

Callers == Principals \cup {NoPrincipal}

(* the sample event and the sample pending application of init_db *)
InitGuard ==
  /\ users = InitUsers
  /\ events = (1 :> SampleEvent)
  /\ applications = (1 :> NewApplication(3, 1))
  /\ payments = <<>>
  /\ nextEventId = 2
  /\ nextApplicationId = 2
  /\ nextPaymentId = 1
  /\ now = 1
  /\ resp = Resp("none", Null, Null, Null)
  /\ handlers = <<>>
  /\ isolation = "read_committed"

GuardVendors == \E c \in Callers : get_all_vendors(c)

GuardVendorDetails == \E c \in Callers : get_vendor_details(c, 3)

GuardToggle == \E c \in Callers : toggle_vendor_status(c, 3)

GuardApplications == \E c \in Callers : get_all_applications(c, NoText, Null)

GuardReview ==
  /\ nextPaymentId <= MaxPayments
  /\ \E c \in Callers : review_application(c, 1, [status |-> "approved"])

GuardEvents == \E c \in Callers : get_all_events(c)

GuardCreate ==
  /\ nextEventId <= MaxEvents
  /\ \E c \in Callers : create_event(c, BaseBody)

GuardUpdate == \E c \in Callers : update_event(c, 1, [vendor_fee |-> 750])

GuardDelete == \E c \in Callers, e \in 1..MaxEvents : delete_event(c, e)

GuardPayments == \E c \in Callers : get_all_payments(c)

GuardUpdatePayment ==
  \E c \in Callers : update_payment_status(c, 1, [status |-> "completed"])

GuardDashboard == \E c \in Callers : get_admin_dashboard_stats(c)

GuardByStatus == \E c \in Callers : get_applications_by_status(c)

GuardOverTime == \E c \in Callers : get_applications_over_time(c)

GuardRevenue == \E c \in Callers : get_revenue_by_month(c)

NextGuard ==
  \/ GuardVendors
  \/ GuardVendorDetails
  \/ GuardToggle
  \/ GuardApplications
  \/ GuardReview
  \/ GuardEvents
  \/ GuardCreate
  \/ GuardUpdate
  \/ GuardDelete
  \/ GuardPayments
  \/ GuardUpdatePayment
  \/ GuardDashboard
  \/ GuardByStatus
  \/ GuardOverTime
  \/ GuardRevenue

SpecGuard == InitGuard /\ [][NextGuard]_vars

(* C22: every /admin operation called with a credential that resolves to *)
(* a vendor, or to no stored principal, answers 403 and leaves the store *)
(* as it was.                                                             *)
C22_AdminGuard ==
  [][(/\ resp'.op \in {"list_vendors", "vendor_details",
                        "toggle_vendor_status", "list_applications",
                        "review", "list_events", "create_event",
                        "update_event", "delete_event", "list_payments",
                        "update_payment", "dashboard_stats",
                        "applications_by_status", "applications_over_time",
                        "revenue_by_month"}
      /\ \/ resp'.actor \notin DOMAIN users
         \/ users[resp'.actor].role # "admin")
       => (resp'.code = 403 /\ UNCHANGED db)]_vars

(* the vendor's own attempt to approve the vendor's pending application *)
(* was refused                                                           *)
C22_Witness ==
  /\ resp.op = "review"
  /\ resp.code = 403
  /\ resp.actor \in Vendors
  /\ resp.id \in DOMAIN applications
  /\ applications[resp.id].vendor_id = resp.actor
  /\ applications[resp.id].status = "pending"

====
